---- MODULE Spec2Model ----
(***************************************************************************)
(* Model of src/dependency.rs: the dependency record of a package          *)
(* registry, its validation and bulk insert (add_dependencies), the two    *)
(* row-to-record read paths (Queryable::build, Model::from_row) and the    *)
(* encoders (git_encode, encodable, ReverseDependency::encodable).         *)
(*                                                                         *)
(* Strings that the code inspects are sequences: a crate name is a         *)
(* sequence of characters, a requirement string a sequence of tokens.      *)
(* Option<T> is a sequence of length at most one.                          *)
(***************************************************************************)
EXTENDS Integers, Sequences, FiniteSets, TLC

VARIABLES dependencies, pc, deps, version_id, crates, new_dependencies, ret,
          read, enc

vars == <<dependencies, pc, deps, version_id, crates, new_dependencies, ret,
          read, enc>>

-----------------------------------------------------------------------------
(* Bounds of the model. *)

\* longest batch handed to add_dependencies
MaxDeps == 2
\* stored kind codes range over -1 .. MaxKindCode
MaxKindCode == 3
\* download counts range over 0 .. MaxDownloads
MaxDownloads == 2

-----------------------------------------------------------------------------
(* Option, Result and panic. *)

None == <<>>
Some(x) == <<x>>
unwrap_or(o, d) == IF o = None THEN d ELSE o[1]

Ok(v) == [ok |-> TRUE, val |-> v]
Err(e) == [ok |-> FALSE, err |-> e]

Returned(v) == [panicked |-> FALSE, val |-> v]
Panic(m) == [panicked |-> TRUE, msg |-> m]

\* util::human: an error shown to the user, message and interpolated name
human(m, n) == [human |-> m, name |-> n]

-----------------------------------------------------------------------------
(* enum Kind and its storage codes. *)

Normal == 0
Build == 1
Dev == 2

Kind == {"Normal", "Build", "Dev"}

\* `kind as i32`
Kind_as_i32(k) ==
  CASE k = "Normal" -> Normal
    [] k = "Build" -> Build
    [] k = "Dev" -> Dev

-----------------------------------------------------------------------------
(* semver::VersionReq, the external requirement parser: a requirement is   *)
(* a sequence of predicates, the wildcard is the empty sequence.  A bare   *)
(* version parses as a caret requirement, so to_string(parse(s)) need not  *)
(* be s.                                                                   *)

VersionTokens == {"1", "2"}
OpTokens == {"^", ">="}

OpOfToken(t) == IF t = "^" THEN "Compatible" ELSE "GtEq"
TokenOfOp(o) == IF o = "Compatible" THEN "^" ELSE ">="

VersionReq_parse(s) ==
  IF s = <<"*">> THEN Ok([predicates |-> <<>>])
  ELSE IF Len(s) = 1 /\ s[1] \in VersionTokens
    THEN Ok([predicates |-> <<[op |-> "Compatible", version |-> s[1]]>>])
  ELSE IF Len(s) = 2 /\ s[1] \in OpTokens /\ s[2] \in VersionTokens
    THEN Ok([predicates |-> <<[op |-> OpOfToken(s[1]), version |-> s[2]]>>])
  ELSE Err("ParseError")

VersionReq_to_string(r) ==
  IF r.predicates = <<>> THEN <<"*">>
  ELSE <<TokenOfOp(r.predicates[1].op), r.predicates[1].version>>

\* Result::unwrap on the parse of a stored requirement string
parse_unwrap(s) ==
  IF VersionReq_parse(s).ok THEN Returned(VersionReq_parse(s).val)
  ELSE Panic("called Result::unwrap() on an Err value")

-----------------------------------------------------------------------------
(* The package table, the versions table and the canonical name.           *)

serde == <<"s", "e", "r", "d", "e">>
foo_dash_bar == <<"f", "o", "o", "-", "b", "a", "r">>
foo_under_bar == <<"f", "o", "o", "_", "b", "a", "r">>
bogus_pkg == <<"b", "o", "g", "u", "s", "-", "p", "k", "g">>

\* rows of the crates table: (id, name, downloads)
CratesTable ==
  { [id |-> 1, name |-> serde, downloads |-> MaxDownloads],
    [id |-> 2, name |-> foo_dash_bar, downloads |-> 1] }

\* rows of the versions table: (id, crate_id)
VersionsTable == { [id |-> 10, crate_id |-> 2], [id |-> 11, crate_id |-> 1] }

VersionIds == {v.id : v \in VersionsTable}
CrateIds == {c.id : c \in CratesTable}

CrateById(i) == CHOOSE c \in CratesTable : c.id = i
OwnerOf(v) == CrateById((CHOOSE w \in VersionsTable : w.id = v).crate_id)

lower(ch) ==
  CASE ch = "S" -> "s"
    [] ch = "F" -> "f"
    [] ch = "B" -> "b"
    [] OTHER -> ch

\* the SQL function canon_crate_name: lower-case, then every hyphen replaced by an underscore
canon_crate_name(name) ==
  [i \in DOMAIN name |-> IF lower(name[i]) = "-" THEN "_" ELSE lower(name[i])]

-----------------------------------------------------------------------------
(* struct Dependency, the read paths and the encoders.                     *)

\* columns of the dependencies table in the order of Queryable::Row
RowTuple(r) ==
  <<r.id, r.version_id, r.crate_id, r.req, r.optional, r.default_features,
    r.features, r.target, r.kind>>

\* Queryable<dependencies::SqlType, Pg>::build
build(row) ==
  IF parse_unwrap(row[4]).panicked THEN parse_unwrap(row[4])
  ELSE IF row[9] \notin {0, 1, 2} THEN Panic(<<"unknown kind: {}", row[9]>>)
  ELSE Returned(
    [ id |-> row[1],
      version_id |-> row[2],
      crate_id |-> row[3],
      req |-> parse_unwrap(row[4]).val,
      optional |-> row[5],
      default_features |-> row[6],
      features |-> row[7],
      target |-> row[8],
      kind |-> CASE row[9] = 0 -> "Normal"
                 [] row[9] = 1 -> "Build"
                 [] row[9] = 2 -> "Dev" ])

\* from_row with a default branch: an unknown kind code read as Normal
from_row_default_kind(row) ==
  IF parse_unwrap(row.req).panicked THEN parse_unwrap(row.req)
  ELSE Returned(
    [ id |-> row.id,
      version_id |-> row.version_id,
      crate_id |-> row.crate_id,
      req |-> parse_unwrap(row.req).val,
      optional |-> row.optional,
      default_features |-> row.default_features,
      features |-> row.features,
      target |-> row.target,
      kind |-> CASE row.kind = 1 -> "Build"
                 [] row.kind = 2 -> "Dev"
                 [] OTHER -> "Normal" ])

\* Model::from_row for Dependency
from_row(row) ==
  IF parse_unwrap(row.req).panicked THEN parse_unwrap(row.req)
  ELSE IF row.kind \notin {0, 1, 2} THEN Panic(<<"unknown kind: {}", row.kind>>)
  ELSE Returned(
    [ id |-> row.id,
      version_id |-> row.version_id,
      crate_id |-> row.crate_id,
      req |-> parse_unwrap(row.req).val,
      optional |-> row.optional,
      default_features |-> row.default_features,
      features |-> row.features,
      target |-> row.target,
      kind |-> CASE row.kind = 0 -> "Normal"
                 [] row.kind = 1 -> "Build"
                 [] row.kind = 2 -> "Dev" ])

\* Model::from_row for ReverseDependency
ReverseDependency_from_row(row) ==
  IF from_row(row).panicked THEN from_row(row)
  ELSE Returned(
    [ dependency |-> from_row(row).val,
      crate_name |-> row.crate_name,
      crate_downloads |-> row.crate_downloads ])

\* Dependency::git_encode
git_encode(self, crate_name) ==
  [ name |-> crate_name,
    req |-> VersionReq_to_string(self.req),
    features |-> self.features,
    optional |-> self.optional,
    default_features |-> self.default_features,
    target |-> self.target,
    kind |-> Some(self.kind) ]

\* encodable without the default of zero downloads
encodable_no_zero(self, crate_name, downloads) ==
  [ id |-> self.id,
    version_id |-> self.version_id,
    crate_id |-> crate_name,
    req |-> VersionReq_to_string(self.req),
    optional |-> self.optional,
    default_features |-> self.default_features,
    features |-> self.features,
    target |-> self.target,
    kind |-> self.kind,
    downloads |-> unwrap_or(downloads, -1) ]

\* Dependency::encodable
encodable(self, crate_name, downloads) ==
  [ id |-> self.id,
    version_id |-> self.version_id,
    crate_id |-> crate_name,
    req |-> VersionReq_to_string(self.req),
    optional |-> self.optional,
    default_features |-> self.default_features,
    features |-> self.features,
    target |-> self.target,
    kind |-> self.kind,
    downloads |-> unwrap_or(downloads, 0) ]

\* the reverse encoding without the attached download count
ReverseDependency_encodable_no_downloads(self) ==
  encodable(self.dependency, self.crate_name, None)

\* ReverseDependency::encodable
ReverseDependency_encodable(self) ==
  encodable(self.dependency, self.crate_name, Some(self.crate_downloads))

\* the reverse-dependency query's join: a dependency row with the name and
\* download count of the crate that owns the row's version
ReverseRow(r) ==
  [ id |-> r.id, version_id |-> r.version_id, crate_id |-> r.crate_id,
    req |-> r.req, optional |-> r.optional,
    default_features |-> r.default_features, features |-> r.features,
    target |-> r.target, kind |-> r.kind,
    crate_name |-> OwnerOf(r.version_id).name,
    crate_downloads |-> OwnerOf(r.version_id).downloads ]

-----------------------------------------------------------------------------
(* add_dependencies: name resolution, validation, bulk insert.             *)

\* Crate::all().filter(canon_crate_name(crates::name).eq(any(crate_names)))
LoadCrates(crate_names) ==
  {c \in CratesTable : canon_crate_name(c.name) \in crate_names}

\* deps.iter().map(|d| &*d.name)
crate_names_of(ds) == {ds[i].name : i \in DOMAIN ds}

\* find on the canonical name instead of the exact name
find_crate_canon(loaded, dep) ==
  {c \in loaded : canon_crate_name(dep.name) = canon_crate_name(c.name)}

\* crates.iter().find(|c| dep.name == c.name)
find_crate(loaded, dep) == {c \in loaded : dep.name = c.name}

\* the wildcard check left out
is_wildcard_unchecked(req) == FALSE

\* dep.version_req == semver::VersionReq::parse("*").unwrap()
is_wildcard(req) == req = parse_unwrap(<<"*">>).val

\* a missing kind defaulted to Build
default_kind_build(kind) == unwrap_or(kind, "Build")

\* dep.kind.unwrap_or(Kind::Normal)
default_kind(kind) == unwrap_or(kind, "Normal")

\* the closure mapped over deps: one declaration to one NewDependency
new_dependency(dep, loaded, vid) ==
  IF find_crate(loaded, dep) = {}
    THEN Err(human("no known crate named {}", Some(dep.name)))
  ELSE IF is_wildcard(dep.version_req)
    THEN Err(human("wildcard dependency constraints are not allowed on crates.io", None))
  ELSE Ok(
    [ version_id |-> vid,
      crate_id |-> (CHOOSE c \in find_crate(loaded, dep) : TRUE).id,
      req |-> VersionReq_to_string(dep.version_req),
      kind |-> Kind_as_i32(default_kind(dep.kind)),
      optional |-> dep.optional,
      default_features |-> dep.default_features,
      features |-> dep.features,
      target |-> dep.target ])

\* a partial-success collect: the rejected declarations are skipped
RECURSIVE collect_partial(_, _, _)
collect_partial(ds, loaded, vid) ==
  IF ds = <<>> THEN Ok(<<>>)
  ELSE IF ~new_dependency(Head(ds), loaded, vid).ok
    THEN collect_partial(Tail(ds), loaded, vid)
  ELSE Ok(<<new_dependency(Head(ds), loaded, vid).val>>
          \o collect_partial(Tail(ds), loaded, vid).val)

\* .collect::<Result<Vec<_>, _>>(): the first Err in input order, else all
RECURSIVE collect(_, _, _)
collect(ds, loaded, vid) ==
  IF ds = <<>> THEN Ok(<<>>)
  ELSE IF ~new_dependency(Head(ds), loaded, vid).ok
    THEN new_dependency(Head(ds), loaded, vid)
  ELSE IF ~collect(Tail(ds), loaded, vid).ok
    THEN collect(Tail(ds), loaded, vid)
  ELSE Ok(<<new_dependency(Head(ds), loaded, vid).val>>
          \o collect(Tail(ds), loaded, vid).val)

\* the row the table stores for the k-th NewDependency of a bulk insert
StoredRow(table, news, k) ==
  [ id |-> Len(table) + k,
    version_id |-> news[k].version_id,
    crate_id |-> news[k].crate_id,
    req |-> news[k].req,
    optional |-> news[k].optional,
    default_features |-> news[k].default_features,
    features |-> news[k].features,
    target |-> news[k].target,
    kind |-> news[k].kind ]

\* an insert that replaces the table's rows instead of adding to them
insert_into_replacing(table, news) ==
  [k \in 1..Len(news) |-> StoredRow(table, news, k)]

\* insert(&new_dependencies).into(dependencies::table): the table afterwards
insert_into(table, news) ==
  table \o [k \in 1..Len(news) |-> StoredRow(table, news, k)]

\* .get_results(conn): the inserted rows, each through Queryable::build
get_results(table, news) ==
  [k \in 1..Len(news) |-> build(RowTuple(StoredRow(table, news, k)))]

-----------------------------------------------------------------------------
(* Inputs: the declarations a client can submit (upload::CrateDependency), *)
(* the rows storage can hold, the arguments callers pass to the encoders.  *)

Flags ==
  { [optional |-> FALSE, default_features |-> TRUE, features |-> <<>>,
     target |-> None],
    [optional |-> TRUE, default_features |-> FALSE, features |-> <<"std">>,
     target |-> Some("cfg(unix)")] }

DeclNames == {serde, foo_dash_bar, foo_under_bar, bogus_pkg}
DeclReqs == {VersionReq_parse(s).val : s \in {<<"*">>, <<"1">>, <<">=", "2">>}}
DeclKinds == {None} \cup {Some(k) : k \in Kind}

Decl(n, r, k, f) ==
  [ name |-> n, version_req |-> r, kind |-> k, optional |-> f.optional,
    default_features |-> f.default_features, features |-> f.features,
    target |-> f.target ]

Decls == {Decl(n, r, k, f) : n \in DeclNames, r \in DeclReqs, k \in DeclKinds, f \in Flags}

\* the declarations of the concurrent runs: a resolvable and an unknown
\* name, a wildcard and a caret requirement
ConcDecls ==
  {d \in Decls : /\ d.name \in {serde, bogus_pkg}
                 /\ d.version_req \in {VersionReq_parse(s).val : s \in {<<"*">>, <<"1">>}}
                 /\ d.kind = None
                 /\ d.optional}

Batches(D) == UNION {[1..n -> D] : n \in 0..MaxDeps}

SeqBatches == Batches(Decls)
ConcBatches == Batches(ConcDecls)

StoredReqs == {<<"^", "1">>, <<">=", "2">>, <<"junk">>}

\* any row the dependencies table can hold, written by this code or not
StoredRows ==
  { [ id |-> 1, version_id |-> v, crate_id |-> c, req |-> r,
      optional |-> f.optional, default_features |-> f.default_features,
      features |-> f.features, target |-> f.target, kind |-> k ] :
    v \in VersionIds, c \in CrateIds, r \in StoredReqs, f \in Flags,
    k \in -1..MaxKindCode }

\* the row the table holds before any call of the write path
InitialDependencies ==
  << [ id |-> 1, version_id |-> 11, crate_id |-> 1, req |-> <<"^", "1">>,
       optional |-> FALSE, default_features |-> TRUE, features |-> <<>>,
       target |-> None, kind |-> 0 ] >>

EncodeNames == {serde, foo_dash_bar}
DownloadsArgs == {None} \cup {Some(n) : n \in 0..MaxDownloads}

Procs == {1, 2}

NoRead == [via |-> "none"]
NoEnc == [fn |-> "none"]

-----------------------------------------------------------------------------
(* The write path: one call of add_dependencies per process.               *)

Idle ==
  /\ pc = [p \in Procs |-> "idle"]
  /\ deps = [p \in Procs |-> <<>>]
  /\ version_id = [p \in Procs |-> 0]
  /\ crates = [p \in Procs |-> {}]
  /\ new_dependencies = [p \in Procs |-> Ok(<<>>)]
  /\ ret = [p \in Procs |-> Ok(<<>>)]

\* a caller invokes add_dependencies(conn, ds, v), ds drawn from B
Call(p, B) ==
  /\ pc[p] = "idle"
  /\ \E ds \in B, v \in VersionIds :
       /\ deps' = [deps EXCEPT ![p] = ds]
       /\ version_id' = [version_id EXCEPT ![p] = v]
  /\ pc' = [pc EXCEPT ![p] = "query"]
  /\ UNCHANGED <<dependencies, crates, new_dependencies, ret, read, enc>>

\* the name-resolution query
Query(p) ==
  /\ pc[p] = "query"
  /\ crates' = [crates EXCEPT ![p] = LoadCrates(crate_names_of(deps[p]))]
  /\ pc' = [pc EXCEPT ![p] = "map"]
  /\ UNCHANGED <<dependencies, deps, version_id, new_dependencies, ret, read, enc>>

\* the map over deps collected into a Result, and the `?` on it
Validate(p) ==
  /\ pc[p] = "map"
  /\ new_dependencies' =
       [new_dependencies EXCEPT ![p] = collect(deps[p], crates[p], version_id[p])]
  /\ IF collect(deps[p], crates[p], version_id[p]).ok
       THEN /\ pc' = [pc EXCEPT ![p] = "insert"]
            /\ ret' = ret
       ELSE /\ pc' = [pc EXCEPT ![p] = "done"]
            /\ ret' = [ret EXCEPT ![p] = collect(deps[p], crates[p], version_id[p])]
  /\ UNCHANGED <<dependencies, deps, version_id, crates, read, enc>>

\* the bulk insert returning the inserted rows as records
Insert(p) ==
  /\ pc[p] = "insert"
  /\ dependencies' = insert_into(dependencies, new_dependencies[p].val)
  /\ ret' = [ret EXCEPT ![p] =
       IF \E k \in DOMAIN new_dependencies[p].val :
            get_results(dependencies, new_dependencies[p].val)[k].panicked
         THEN Panic("build")
         ELSE Ok([k \in DOMAIN new_dependencies[p].val |->
                    get_results(dependencies, new_dependencies[p].val)[k].val])]
  /\ pc' = [pc EXCEPT ![p] = "done"]
  /\ UNCHANGED <<deps, version_id, crates, new_dependencies, read, enc>>

-----------------------------------------------------------------------------
(* The read paths and the encoders, applied to a stored row.               *)

\* a Diesel query loads row i through Queryable::build
QueryableLoad(i) ==
  /\ read' = [via |-> "build", row |-> dependencies[i],
              out |-> build(RowTuple(dependencies[i]))]
  /\ enc' = NoEnc
  /\ UNCHANGED <<dependencies, pc, deps, version_id, crates, new_dependencies, ret>>

\* a postgres query loads row i through Model::from_row
ModelLoad(i) ==
  /\ read' = [via |-> "from_row", row |-> dependencies[i],
              out |-> from_row(dependencies[i])]
  /\ enc' = NoEnc
  /\ UNCHANGED <<dependencies, pc, deps, version_id, crates, new_dependencies, ret>>

\* the reverse-dependency query loads the joined row of row i
ReverseLoad(i) ==
  /\ read' = [via |-> "reverse", row |-> ReverseRow(dependencies[i]),
              out |-> ReverseDependency_from_row(ReverseRow(dependencies[i]))]
  /\ enc' = NoEnc
  /\ UNCHANGED <<dependencies, pc, deps, version_id, crates, new_dependencies, ret>>

\* a caller encodes the loaded record for the API
Encodable(name, downloads) ==
  /\ read.via \in {"build", "from_row"}
  /\ ~read.out.panicked
  /\ enc' = [fn |-> "encodable", self |-> read.out.val, crate_name |-> name,
             downloads |-> downloads,
             out |-> encodable(read.out.val, name, downloads)]
  /\ UNCHANGED <<dependencies, pc, deps, version_id, crates, new_dependencies, ret, read>>

\* a caller encodes the loaded record for the index
GitEncode(name) ==
  /\ read.via \in {"build", "from_row"}
  /\ ~read.out.panicked
  /\ enc' = [fn |-> "git_encode", self |-> read.out.val, crate_name |-> name,
             out |-> git_encode(read.out.val, name)]
  /\ UNCHANGED <<dependencies, pc, deps, version_id, crates, new_dependencies, ret, read>>

\* a caller encodes the loaded reverse dependency
ReverseEncodable ==
  /\ read.via = "reverse"
  /\ ~read.out.panicked
  /\ enc' = [fn |-> "reverse", self |-> read.out.val,
             out |-> ReverseDependency_encodable(read.out.val)]
  /\ UNCHANGED <<dependencies, pc, deps, version_id, crates, new_dependencies, ret, read>>

-----------------------------------------------------------------------------
(* Specifications.                                                         *)

\* one call of add_dependencies, any batch of declarations
Init ==
  /\ dependencies = InitialDependencies
  /\ Idle
  /\ read = NoRead
  /\ enc = NoEnc

Next ==
  \/ Call(1, SeqBatches)
  \/ Query(1)
  \/ Validate(1)
  \/ Insert(1)

Spec == Init /\ [][Next]_vars

\* two calls of add_dependencies with their steps interleaved
NextConc ==
  \/ \E p \in Procs : Call(p, ConcBatches)
  \/ \E p \in Procs : Query(p)
  \/ \E p \in Procs : Validate(p)
  \/ \E p \in Procs : Insert(p)

SpecConc == Init /\ [][NextConc]_vars

\* the read paths and the encoders over any stored row
InitRead ==
  /\ dependencies \in {<<r>> : r \in StoredRows}
  /\ Idle
  /\ read = NoRead
  /\ enc = NoEnc

NextRead ==
  \/ \E i \in DOMAIN dependencies : QueryableLoad(i)
  \/ \E i \in DOMAIN dependencies : ModelLoad(i)
  \/ \E i \in DOMAIN dependencies : ReverseLoad(i)
  \/ \E n \in EncodeNames, d \in DownloadsArgs : Encodable(n, d)
  \/ \E n \in EncodeNames : GitEncode(n)
  \/ ReverseEncodable

SpecRead == InitRead /\ [][NextRead]_vars

-----------------------------------------------------------------------------
(* Vocabulary of the properties, stated on the tables and the inputs and   *)
(* not through the operators of the write path.                            *)

UnknownPackage(n) == human("no known crate named {}", Some(n))
DisallowedConstraint ==
  human("wildcard dependency constraints are not allowed on crates.io", None)

\* the package table holds a package of exactly this name
InTable(n) == \E c \in CratesTable : c.name = n
\* the name differs from every stored name and equals one after normalization
CanonOnly(n) ==
  /\ ~InTable(n)
  /\ \E c \in CratesTable : canon_crate_name(c.name) = canon_crate_name(n)
\* the name is not in the table, or is stored in its canonical form
CanonicalOrUnknown(n) == InTable(n) => canon_crate_name(n) = n
\* the requirement is the wildcard
Wild(d) == d.version_req.predicates = <<>>
\* a declaration the specification calls invalid
Invalid(d) == ~InTable(d.name) \/ Wild(d)
\* the error the specification gives an invalid declaration
ErrorOf(d) == IF ~InTable(d.name) THEN UnknownPackage(d.name) ELSE DisallowedConstraint

Done(p) == pc[p] = "done"
\* the resolved crates of call p hold a crate of exactly the declared name
Matched(p, i) == \E c \in crates[p] : c.name = deps[p][i].name
\* call p rejects its i-th declaration
Rejected(p, i) == ~Matched(p, i) \/ Wild(deps[p][i])
\* call p rejects its i-th declaration and none before it
FirstRejected(p, i) ==
  /\ i \in DOMAIN deps[p]
  /\ Rejected(p, i)
  /\ \A j \in 1..(i - 1) : ~Rejected(p, j)
\* the error of the first rejected declaration of call p
FirstError(p, i) ==
  IF ~Matched(p, i) THEN UnknownPackage(deps[p][i].name) ELSE DisallowedConstraint

\* the rows inserted since the initial state
NewRows == SubSeq(dependencies, Len(InitialDependencies) + 1, Len(dependencies))
NothingPersisted == dependencies = InitialDependencies

\* the stored row a record was built from
StoredRowOf(rec) == CHOOSE r \in {dependencies[k] : k \in DOMAIN dependencies} : r.id = rec.id

-----------------------------------------------------------------------------
(* C1 *)

\* C1 as stated: a finished call whose batch names a package that is not in
\* the package table has failed with UnknownPackage carrying an unknown name
\* of the batch, and has persisted nothing.  (Stated on the batches whose
\* other names are stored in canonical form, where name resolution finds
\* every stored name.)
C1_AsStated ==
  \A p \in Procs :
    (/\ Done(p)
     /\ \E i \in DOMAIN deps[p] : ~InTable(deps[p][i].name)
     /\ \A i \in DOMAIN deps[p] : CanonicalOrUnknown(deps[p][i].name)) =>
      /\ ~ret[p].ok
      /\ \E i \in DOMAIN deps[p] :
           ~InTable(deps[p][i].name) /\ ret[p].err = UnknownPackage(deps[p][i].name)
      /\ NothingPersisted

\* C1 amended: a finished call whose batch names a package that is not in the
\* package table has failed and has persisted nothing; the error is that of
\* the first rejected declaration in input order: UnknownPackage carrying
\* its name when the resolved crates hold no crate of exactly that name,
\* DisallowedConstraint otherwise.
C1_UnknownPackageFailsBatch ==
  \A p \in Procs :
    (Done(p) /\ \E i \in DOMAIN deps[p] : ~InTable(deps[p][i].name)) =>
      /\ ~ret[p].ok
      /\ NothingPersisted
      /\ \E i \in DOMAIN deps[p] :
           FirstRejected(p, i) /\ ret[p].err = FirstError(p, i)
      /\ \A i \in DOMAIN deps[p] :
           (~InTable(deps[p][i].name) /\ FirstRejected(p, i)) =>
             ret[p].err = UnknownPackage(deps[p][i].name)

\* a batch of a valid declaration and one naming an unknown package failed
C1_Witness ==
  /\ Done(1)
  /\ Len(deps[1]) = 2
  /\ deps[1][1].name = serde /\ ~Wild(deps[1][1])
  /\ deps[1][2].name = bogus_pkg
  /\ ret[1] = Err(UnknownPackage(bogus_pkg))

-----------------------------------------------------------------------------
(* C2 *)

\* C2 as stated: a finished call whose batch holds a wildcard requirement has
\* failed with DisallowedConstraint, whatever the other declarations are,
\* and has persisted nothing.  (Stated on the batches whose resolvable names
\* are stored in canonical form, where name resolution finds every stored
\* name.)
C2_AsStated ==
  \A p \in Procs :
    (/\ Done(p)
     /\ \E i \in DOMAIN deps[p] : Wild(deps[p][i])
     /\ \A i \in DOMAIN deps[p] : CanonicalOrUnknown(deps[p][i].name)) =>
      /\ ~ret[p].ok
      /\ ret[p].err = DisallowedConstraint
      /\ NothingPersisted

\* C2 amended: a finished call whose batch holds a wildcard requirement has
\* failed and has persisted nothing; the error is DisallowedConstraint when
\* the first rejected declaration has a resolved name (so its requirement is
\* the wildcard), and UnknownPackage carrying that declaration's name when
\* its name is not resolved.
C2_WildcardFailsBatch ==
  \A p \in Procs :
    (Done(p) /\ \E i \in DOMAIN deps[p] : Wild(deps[p][i])) =>
      /\ ~ret[p].ok
      /\ NothingPersisted
      /\ \A i \in DOMAIN deps[p] :
           FirstRejected(p, i) =>
             /\ (Matched(p, i) => ret[p].err = DisallowedConstraint)
             /\ (~Matched(p, i) => ret[p].err = UnknownPackage(deps[p][i].name))

\* a batch of a valid declaration and a resolvable wildcard one failed
C2_Witness ==
  /\ Done(1)
  /\ Len(deps[1]) = 2
  /\ deps[1][1].name = serde /\ ~Wild(deps[1][1])
  /\ deps[1][2].name = serde /\ Wild(deps[1][2])
  /\ ret[1] = Err(DisallowedConstraint)

-----------------------------------------------------------------------------
(* C3 *)

\* C3: a finished call whose declarations all name a package of the table
\* and have a non-wildcard requirement has returned one persisted record per
\* declaration, and encodable under the declared name gives back the name,
\* the requirement string, the flags, the features, the target and the
\* kind of the declaration, with the caller's version id.
C3_RoundTrip ==
  \A p \in Procs :
    (/\ Done(p)
     /\ \A i \in DOMAIN deps[p] : InTable(deps[p][i].name) /\ ~Wild(deps[p][i])) =>
      /\ ret[p].ok
      /\ Len(ret[p].val) = Len(deps[p])
      /\ Len(NewRows) = Len(deps[p])
      /\ \A i \in DOMAIN deps[p] :
           LET d == deps[p][i]
               e == encodable(ret[p].val[i], d.name, None)
           IN /\ StoredRowOf(ret[p].val[i]) \in {NewRows[k] : k \in DOMAIN NewRows}
              /\ e.crate_id = d.name
              /\ e.req = VersionReq_to_string(d.version_req)
              /\ VersionReq_parse(e.req) = Ok(d.version_req)
              /\ e.optional = d.optional
              /\ e.default_features = d.default_features
              /\ e.features = d.features
              /\ e.target = d.target
              /\ e.kind = (IF d.kind = None THEN "Normal" ELSE d.kind[1])
              /\ e.version_id = version_id[p]

-----------------------------------------------------------------------------
(* C5 *)

\* C5: when a successful call's batch holds a declaration d without kind and
\* the declaration equal to d but for kind Normal, both stored rows have kind
\* code 0, both records have the same index encoding, with kind
\* Some(Normal), and the same API encoding, with kind Normal (the API
\* encodings compared but for id, the storage-assigned identity of the row).
C5_KindDefaulting ==
  \A p \in Procs :
    (Done(p) /\ ret[p].ok) =>
      \A i, j \in DOMAIN deps[p] :
        (/\ deps[p][i].kind = None
         /\ deps[p][j] = [deps[p][i] EXCEPT !.kind = Some("Normal")]) =>
          LET n == deps[p][i].name
              ri == ret[p].val[i]
              rj == ret[p].val[j]
          IN /\ StoredRowOf(ri).kind = 0
             /\ StoredRowOf(rj).kind = 0
             /\ git_encode(ri, n) = git_encode(rj, n)
             /\ git_encode(ri, n).kind = Some("Normal")
             /\ [encodable(ri, n, None) EXCEPT !.id = 0]
                  = [encodable(rj, n, None) EXCEPT !.id = 0]
             /\ encodable(ri, n, None).kind = "Normal"

\* a call stored a declaration without kind and its twin with kind Normal
C5_Witness ==
  /\ Done(1) /\ ret[1].ok
  /\ Len(deps[1]) = 2
  /\ deps[1][1].kind = None
  /\ deps[1][2] = [deps[1][1] EXCEPT !.kind = Some("Normal")]
  /\ Len(NewRows) = 2

-----------------------------------------------------------------------------
(* C9 *)

\* C9: a finished call whose batch has invalid declarations has failed with
\* the error of the first invalid one in input order, the unknown name
\* taking precedence over the wildcard within one declaration; rows are
\* inserted only by a call that has validated every declaration.
C9_FailFastInOrder ==
  /\ \A p \in Procs :
       (Done(p) /\ \E i \in DOMAIN deps[p] : Invalid(deps[p][i])) =>
         LET first == CHOOSE i \in DOMAIN deps[p] :
                        /\ Invalid(deps[p][i])
                        /\ \A j \in 1..(i - 1) : ~Invalid(deps[p][j])
         IN ret[p] = Err(ErrorOf(deps[p][first]))
  /\ \A p \in Procs :
       pc[p] = "insert" =>
         /\ new_dependencies[p].ok
         /\ Len(new_dependencies[p].val) = Len(deps[p])
  /\ ~NothingPersisted =>
       \E p \in Procs :
         /\ Done(p) /\ ret[p].ok
         /\ Len(new_dependencies[p].val) = Len(deps[p])

-----------------------------------------------------------------------------
(* C10 *)

\* C10 as stated: every persisted record of a call carries the id of the
\* package whose stored name is exactly the declared name, and a finished
\* call whose batch holds a name that equals a stored name only after
\* normalization has failed with UnknownPackage.
C10_AsStated ==
  \A p \in Procs :
    /\ (Done(p) /\ ret[p].ok) =>
         \A i \in DOMAIN ret[p].val :
           CrateById(ret[p].val[i].crate_id).name = deps[p][i].name
    /\ (Done(p) /\ \E i \in DOMAIN deps[p] : CanonOnly(deps[p][i].name)) =>
         /\ ~ret[p].ok
         /\ \E i \in DOMAIN deps[p] : ret[p].err = UnknownPackage(deps[p][i].name)

\* C10 amended: every prepared and every persisted record of a call carries the id
\* of the package whose stored name is exactly the declared name; a call
\* whose batch holds a name that no stored name equals has failed and has
\* persisted nothing, with UnknownPackage carrying that name when it is
\* the first rejected declaration, also when the name equals a stored name
\* after normalization.
C10_ExactNameMatch ==
  \A p \in Procs :
    /\ (pc[p] \in {"insert", "done"} /\ new_dependencies[p].ok) =>
         \A i \in DOMAIN new_dependencies[p].val :
           /\ new_dependencies[p].val[i].crate_id \in CrateIds
           /\ CrateById(new_dependencies[p].val[i].crate_id).name = deps[p][i].name
    /\ (Done(p) /\ ret[p].ok) =>
         \A i \in DOMAIN ret[p].val :
           /\ ret[p].val[i].crate_id \in CrateIds
           /\ CrateById(ret[p].val[i].crate_id).name = deps[p][i].name
    /\ (Done(p) /\ \E i \in DOMAIN deps[p] : ~InTable(deps[p][i].name)) =>
         /\ ~ret[p].ok
         /\ NothingPersisted
         /\ \A i \in DOMAIN deps[p] :
              (/\ ~InTable(deps[p][i].name)
               /\ \A j \in 1..(i - 1) : ~Rejected(p, j)) =>
                ret[p].err = UnknownPackage(deps[p][i].name)

\* a name that equals a stored name only after normalization was rejected
C10_Witness ==
  /\ Done(1)
  /\ Len(deps[1]) = 2
  /\ deps[1][1].name = serde /\ ~Wild(deps[1][1])
  /\ CanonOnly(deps[1][2].name)
  /\ \E c \in crates[1] : canon_crate_name(c.name) = deps[1][2].name
  /\ ret[1] = Err(UnknownPackage(deps[1][2].name))

-----------------------------------------------------------------------------
(* C4 *)

\* the kind a stored code stands for
KindOfCode(k) == <<"Normal", "Build", "Dev">>[k + 1]
\* the dependency record of a read, on any of the three read paths
RecordOf(r) == IF r.via = "reverse" THEN r.out.val.dependency ELSE r.out.val

\* C4: on each read path a row whose kind code is outside {0, 1, 2} panics
\* and gives no record; a record that is produced has the kind Normal, Build
\* or Dev of code 0, 1 or 2, and a row with such a code and a requirement
\* string that parses does produce a record.
C4_KindCodeFault ==
  read.via \in {"build", "from_row", "reverse"} =>
    /\ read.row.kind \notin {0, 1, 2} => read.out.panicked
    /\ ~read.out.panicked =>
         /\ read.row.kind \in {0, 1, 2}
         /\ RecordOf(read).kind = KindOfCode(read.row.kind)
    /\ (read.row.kind \in {0, 1, 2} /\ VersionReq_parse(read.row.req).ok) =>
         ~read.out.panicked

\* a row with kind code 3 and a well-formed requirement was read and panicked
C4_Witness ==
  /\ read.via = "from_row"
  /\ read.row.kind = 3
  /\ VersionReq_parse(read.row.req).ok
  /\ read.out.panicked

-----------------------------------------------------------------------------
(* C6 *)

\* C6: the encoding of a reverse dependency carries as crate_id and
\* downloads the name and the download count attached to the record, which
\* are those of the package owning the row's version; every other field is
\* that of the wrapped dependency record.
C6_ReverseEncoding ==
  enc.fn = "reverse" =>
    /\ enc.out.crate_id = enc.self.crate_name
    /\ enc.out.downloads = enc.self.crate_downloads
    /\ enc.out.crate_id = OwnerOf(read.row.version_id).name
    /\ enc.out.downloads = OwnerOf(read.row.version_id).downloads
    /\ enc.out.id = enc.self.dependency.id
    /\ enc.out.version_id = enc.self.dependency.version_id
    /\ enc.out.req = VersionReq_to_string(enc.self.dependency.req)
    /\ enc.out.optional = enc.self.dependency.optional
    /\ enc.out.default_features = enc.self.dependency.default_features
    /\ enc.out.features = enc.self.dependency.features
    /\ enc.out.target = enc.self.dependency.target
    /\ enc.out.kind = enc.self.dependency.kind

\* a reverse dependency whose owner and target differ was encoded
C6_Witness ==
  /\ enc.fn = "reverse"
  /\ OwnerOf(read.row.version_id).id # read.row.crate_id
  /\ enc.out.crate_id # CrateById(read.row.crate_id).name
  /\ enc.out.downloads # CrateById(read.row.crate_id).downloads

-----------------------------------------------------------------------------
(* C7 *)

\* C7: encodable without a downloads figure gives downloads 0, with the
\* figure n it gives n, and no other field of the output depends on the
\* downloads argument.
C7_DownloadsDefault ==
  enc.fn = "encodable" =>
    /\ enc.downloads = None => enc.out.downloads = 0
    /\ \A n \in 0..MaxDownloads : enc.downloads = Some(n) => enc.out.downloads = n
    /\ \A d \in DownloadsArgs :
         [encodable(enc.self, enc.crate_name, d) EXCEPT !.downloads = 0]
           = [enc.out EXCEPT !.downloads = 0]
    /\ enc.out.id = enc.self.id
    /\ enc.out.crate_id = enc.crate_name

\* a record was encoded without a downloads figure
C7_Witness ==
  /\ enc.fn = "encodable"
  /\ enc.downloads = None
  /\ enc.out.downloads = 0

-----------------------------------------------------------------------------
(* C8 *)

\* a stored row without its id, as the NewDependency it was inserted from
AsNew(r) ==
  [ version_id |-> r.version_id, crate_id |-> r.crate_id, req |-> r.req,
    kind |-> r.kind, optional |-> r.optional,
    default_features |-> r.default_features, features |-> r.features,
    target |-> r.target ]

\* the rows of s under version id v, in order
RECURSIVE Under(_, _)
Under(s, v) ==
  IF s = <<>> THEN <<>>
  ELSE IF Head(s).version_id = v THEN <<AsNew(Head(s))>> \o Under(Tail(s), v)
  ELSE Under(Tail(s), v)

\* the outcome of add_dependencies(ds, v) run alone on the package table
Alone(ds, v) == collect(ds, LoadCrates(crate_names_of(ds)), v)

\* C8: a finished call whose version id no other call uses has the outcome
\* it has when run alone: the same error and no row under its version id,
\* or the rows of its batch, and only these, under its version id; an
\* unfinished call has no row under its version id, and every inserted row
\* is under the version id of a finished successful call.
C8_IndependentCalls ==
  /\ \A p \in Procs :
       (\A q \in Procs \ {p} : version_id[q] # version_id[p]) =>
         /\ (Done(p) /\ ~Alone(deps[p], version_id[p]).ok) =>
              /\ ret[p] = Alone(deps[p], version_id[p])
              /\ Under(NewRows, version_id[p]) = <<>>
         /\ (Done(p) /\ Alone(deps[p], version_id[p]).ok) =>
              /\ ret[p].ok
              /\ Under(NewRows, version_id[p]) = Alone(deps[p], version_id[p]).val
              /\ [k \in DOMAIN ret[p].val |-> AsNew(StoredRowOf(ret[p].val[k]))]
                   = Alone(deps[p], version_id[p]).val
         /\ ~Done(p) => Under(NewRows, version_id[p]) = <<>>
  /\ \A k \in DOMAIN NewRows :
       \E p \in Procs :
         /\ Done(p) /\ ret[p].ok
         /\ NewRows[k].version_id = version_id[p]

\* two calls with different version ids both inserted rows, call 2 before
\* call 1
C8_Witness ==
  /\ Done(1) /\ Done(2)
  /\ version_id[1] # version_id[2]
  /\ ret[1].ok /\ ret[2].ok
  /\ Len(deps[1]) = 2 /\ Len(deps[2]) = 1
  /\ ret[1].val[1].id > ret[2].val[1].id

=============================================================================
